---- MODULE Spec2Model ----
(***************************************************************************)
(* Model of app.py, the Streamlit "Power Calculator" page.                  *)
(*                                                                          *)
(* The script is re-run from its first line on every user interaction; one  *)
(* action below is one statement of the script, and the remaining actions   *)
(* are what the user can do to the number_input widget between two runs.    *)
(*                                                                          *)
(* Python's int is arbitrary precision.  It is modelled the way CPython     *)
(* stores it: a sign and a little-endian sequence of base-2^15 digits, so   *)
(* that n**5 is computed exactly even where it leaves the range of a        *)
(* machine word (and of the model checker's own integers).                  *)
(***************************************************************************)
EXTENDS Integers, Sequences, FiniteSets, TLC

VARIABLES
    widget,       \* value held by the number_input widget (session state)
    pc,           \* next statement of the script run, or "done"
    n,            \* script variable n            (line 8)
    square,       \* script variable square       (line 11)
    cube,         \* script variable cube         (line 12)
    fifth_power,  \* script variable fifth_power  (line 13)
    page,         \* elements the current script run has emitted, in order
    interacted,   \* history: has the user touched the widget yet
    memo          \* history: one earlier finished render, chosen arbitrarily

vars == <<widget, pc, n, square, cube, fifth_power, page, interacted, memo>>

---------------------------------------------------------------------------
(* Bounds of the model *)

\* The stepper is exercised on -MaxN .. MaxN.
MaxN == 6

\* Integers the user types into the field that make the powers leave the
\* 32-bit and 64-bit ranges (46341^2 > 2^31, 1291^3 > 2^31, 8192^5 = 2^65).
TypedValues ==
    {-65536, -8193, -8192, -8191, -1291, -74, 74, 1291, 8191, 8192, 8193,
     46341, 65536}

InputValues == (-MaxN .. MaxN) \cup TypedValues

---------------------------------------------------------------------------
(* Python int *)

Base == 2^15

Abs(i) == IF i < 0 THEN -i ELSE i

Sgn(i) == IF i < 0 THEN -1 ELSE IF i = 0 THEN 0 ELSE 1

RECURSIVE LimbsOf(_)
LimbsOf(m) ==
    IF m = 0 THEN <<>> ELSE <<m % Base>> \o LimbsOf(m \div Base)

\* The Python int whose value is the (small) integer i.
FromInt(i) == [sign |-> Sgn(i), digits |-> LimbsOf(Abs(i))]

Zero == FromInt(0)

One == FromInt(1)

\* A name that is not bound yet in the script's namespace.
Unbound == [sign |-> 2, digits |-> <<>>]

\* Drop the zero digits at the most significant end.
RECURSIVE Normalize(_)
Normalize(a) ==
    IF a = <<>> THEN <<>>
    ELSE IF a[Len(a)] = 0 THEN Normalize(SubSeq(a, 1, Len(a) - 1))
    ELSE a

\* a * d + c for a digit d and a carry c.
RECURSIVE MulDigit(_, _, _)
MulDigit(a, d, c) ==
    IF a = <<>> THEN (IF c = 0 THEN <<>> ELSE <<c>>)
    ELSE LET t == a[1] * d + c
         IN  <<t % Base>> \o MulDigit(Tail(a), d, t \div Base)

\* a + b + c for a carry c.
RECURSIVE AddLimbs(_, _, _)
AddLimbs(a, b, c) ==
    IF a = <<>> /\ b = <<>> THEN (IF c = 0 THEN <<>> ELSE <<c>>)
    ELSE LET x  == IF a = <<>> THEN 0 ELSE a[1]
             y  == IF b = <<>> THEN 0 ELSE b[1]
             ra == IF a = <<>> THEN <<>> ELSE Tail(a)
             rb == IF b = <<>> THEN <<>> ELSE Tail(b)
             t  == x + y + c
         IN  <<t % Base>> \o AddLimbs(ra, rb, t \div Base)

\* Schoolbook product of two magnitudes: the row for the lowest digit of b
\* plus the product with the rest of b, shifted by one digit.  (Intermediate
\* values are bound through singleton sets so that each is evaluated once.)
RECURSIVE MulLimbs(_, _)
MulLimbs(a, b) ==
    IF a = <<>> \/ b = <<>> THEN <<>>
    ELSE CHOOSE p \in
             {AddLimbs(row, IF rest = <<>> THEN <<>> ELSE <<0>> \o rest, 0) :
                 row \in {MulDigit(a, b[1], 0)},
                 rest \in {MulLimbs(a, Tail(b))}} : TRUE

\* The magnitude a reduced to its low 64 bits, as a fixed-width multiply
\* would leave it.
Wrap64(a) ==
    IF Len(a) < 5 THEN a
    ELSE Normalize(SubSeq(a, 1, 4) \o <<a[5] % 16>>)

IntMulWrap64(x, y) ==
    LET d == Wrap64(Normalize(MulLimbs(x.digits, y.digits)))
    IN  [sign |-> IF d = <<>> THEN 0 ELSE x.sign * y.sign, digits |-> d]

IntMulAbs(x, y) ==
    LET d == Normalize(MulLimbs(x.digits, y.digits))
    IN  [sign |-> IF d = <<>> THEN 0 ELSE 1, digits |-> d]

\* x * y
IntMul(x, y) ==
    LET d == Normalize(MulLimbs(x.digits, y.digits))
    IN  [sign |-> IF d = <<>> THEN 0 ELSE x.sign * y.sign, digits |-> d]

\* b ** e for an exponent e >= 0, by binary exponentiation: h is b to the
\* upper bits of e, sq its square.
RECURSIVE IntPow(_, _)
IntPow(b, e) ==
    IF e = 0 THEN One
    ELSE CHOOSE r \in
             {IF e % 2 = 1 THEN IntMul(sq, b) ELSE sq :
                 sq \in {IntMul(h, h) : h \in {IntPow(b, e \div 2)}}} : TRUE

\* Quotient and remainder of a magnitude by a small divisor d.
RECURSIVE DivRem1(_, _)
DivRem1(a, d) ==
    IF a = <<>> THEN [q |-> <<>>, r |-> 0]
    ELSE CHOOSE qr \in
             {LET t == hi.r * Base + a[1]
              IN  [q |-> <<t \div d>> \o hi.q, r |-> t % d] :
                 hi \in {DivRem1(Tail(a), d)}} : TRUE

DigitChar == <<"0", "1", "2", "3", "4", "5", "6", "7", "8", "9">>

RECURSIVE DecDigits(_)
DecDigits(a) ==
    IF a = <<>> THEN ""
    ELSE CHOOSE s \in
             {DecDigits(Normalize(dr.q)) \o DigitChar[dr.r + 1] :
                 dr \in {DivRem1(a, 10)}} : TRUE

\* str(x), which is what an f-string field {x} inserts.
IntStr(x) ==
    IF x.sign = 0 THEN "0"
    ELSE (IF x.sign < 0 THEN "-" ELSE "") \o DecDigits(x.digits)

---------------------------------------------------------------------------
(* The page *)

RECURSIVE Join(_)
Join(parts) == IF parts = <<>> THEN "" ELSE parts[1] \o Join(Tail(parts))

\* An element is the call that made it and the fragments of its string
\* argument: for an f-string, its literal pieces and formatted fields.
Element(kind, parts) == [kind |-> kind, parts |-> parts]

\* The text an element shows.
Text(el) == Join(el.parts)

TitleElement == Element("title", <<"Power Calculator">>)

IntroElement ==
    Element("write",
            <<"Enter a number to calculate its square, cube and fifth power.">>)

InputElement == Element("number_input", <<"Enter an integer">>)

SquareLine(v, sq) ==
    Element("write", <<"The sqaure of ", IntStr(v), " is: ", IntStr(sq)>>)

CubeLineEchoesCube(v, cb) ==
    Element("write", <<"The cube of ", IntStr(cb), " is: ", IntStr(cb)>>)

CubeLine(v, cb) ==
    Element("write", <<"The cube of ", IntStr(v), " is: ", IntStr(cb)>>)

FifthLine(v, fp) ==
    Element("write", <<"The fifth_power of ", IntStr(v), " is: ", IntStr(fp)>>)

\* The elements written after the calculation.
ResultLines == SubSeq(page, 4, Len(page))

---------------------------------------------------------------------------
(* The widget *)

\* The value the field starts from when value= is left out.
ValueOmitted == Abs(0)

\* value=1
DefaultValue == 1

\* step=1
Step == 1

StepUpTwice(v) == v + 2 * Step

StepUp(v) == v + Step

StepDown(v) == v - Step

---------------------------------------------------------------------------
(* The calculation *)

\* A square that depends on whether the field has been touched before.
SquareOfOnceTouched(v) ==
    IF interacted THEN IntMul(v, FromInt(2)) ELSE IntPow(v, 2)

SquareOf(v) == IntPow(v, 2)

CubeOf(v) == IntPow(v, 3)

FifthOfFourth(v) == IntPow(v, 4)

FifthOf(v) == IntPow(v, 5)

Triple(a, b, c, d) == [n |-> a, square |-> b, cube |-> c, fifth_power |-> d]

NoMemo == Triple(Unbound, Unbound, Unbound, Unbound)

---------------------------------------------------------------------------
(* The script, one action per statement *)

Init ==
    /\ widget = DefaultValue
    /\ pc = "l4"
    /\ n = Unbound
    /\ square = Unbound
    /\ cube = Unbound
    /\ fifth_power = Unbound
    /\ page = <<>>
    /\ interacted = FALSE
    /\ memo = NoMemo

\* 4: st.title("Power Calculator")
Title ==
    /\ pc = "l4"
    /\ page' = Append(page, TitleElement)
    /\ pc' = "l5"
    /\ UNCHANGED <<widget, n, square, cube, fifth_power, interacted, memo>>

\* 5: st.write("Enter a number ...")
Intro ==
    /\ pc = "l5"
    /\ page' = Append(page, IntroElement)
    /\ pc' = "l8"
    /\ UNCHANGED <<widget, n, square, cube, fifth_power, interacted, memo>>

\* 8: n = st.number_input("Enter an integer", value=1, step=1)
NumberInput ==
    /\ pc = "l8"
    /\ n' = FromInt(widget)
    /\ page' = Append(page, InputElement)
    /\ pc' = "l11"
    /\ UNCHANGED <<widget, square, cube, fifth_power, interacted, memo>>

\* 11: square = n**2
CalcSquare ==
    /\ pc = "l11"
    /\ square' = SquareOf(n)
    /\ pc' = "l12"
    /\ UNCHANGED <<widget, n, cube, fifth_power, page, interacted, memo>>

\* 12: cube = n**3
CalcCube ==
    /\ pc = "l12"
    /\ cube' = CubeOf(n)
    /\ pc' = "l13"
    /\ UNCHANGED <<widget, n, square, fifth_power, page, interacted, memo>>

\* 13: fifth_power = n**5
CalcFifth ==
    /\ pc = "l13"
    /\ fifth_power' = FifthOf(n)
    /\ pc' = "l16"
    /\ UNCHANGED <<widget, n, square, cube, page, interacted, memo>>

\* 16: st.write(f"The sqaure of {n} is: {square}")
WriteSquare ==
    /\ pc = "l16"
    /\ page' = Append(page, SquareLine(n, square))
    /\ pc' = "l17"
    /\ UNCHANGED <<widget, n, square, cube, fifth_power, interacted, memo>>

\* 17: st.write(f"The cube of {n} is: {cube}")
WriteCube ==
    /\ pc = "l17"
    /\ page' = Append(page, CubeLine(n, cube))
    /\ pc' = "l18"
    /\ UNCHANGED <<widget, n, square, cube, fifth_power, interacted, memo>>

\* Line 18 raising for an input that is not positive.
WriteFifthPositiveOnly ==
    /\ pc = "l18"
    /\ n.sign > 0
    /\ page' = Append(page, FifthLine(n, fifth_power))
    /\ pc' = "done"
    /\ memo' \in {memo, Triple(n, square, cube, fifth_power)}
    /\ UNCHANGED <<widget, n, square, cube, fifth_power, interacted>>

\* 18: st.write(f"The fifth_power of {n} is: {fifth_power}")
\* The run ends here; the history may keep this render to compare a later
\* one against.
WriteFifth ==
    /\ pc = "l18"
    /\ page' = Append(page, FifthLine(n, fifth_power))
    /\ pc' = "done"
    /\ memo' \in {memo, Triple(n, square, cube, fifth_power)}
    /\ UNCHANGED <<widget, n, square, cube, fifth_power, interacted>>

\* An interaction that leaves the page as it is, without a new run.
StartRunSkipped ==
    /\ pc' = "done"
    /\ UNCHANGED <<n, square, cube, fifth_power, page>>

\* A new run starts from line 4 in a fresh namespace, with an empty page.
StartRun ==
    /\ pc' = "l4"
    /\ n' = Unbound
    /\ square' = Unbound
    /\ cube' = Unbound
    /\ fifth_power' = Unbound
    /\ page' = <<>>

---------------------------------------------------------------------------
(* The user, between two runs *)

\* The "+" button of the field.
Increment ==
    /\ pc = "done"
    /\ StepUp(widget) \in InputValues
    /\ widget' = StepUp(widget)
    /\ interacted' = TRUE
    /\ StartRun
    /\ UNCHANGED memo

\* The "-" button of the field.
Decrement ==
    /\ pc = "done"
    /\ StepDown(widget) \in InputValues
    /\ widget' = StepDown(widget)
    /\ interacted' = TRUE
    /\ StartRun
    /\ UNCHANGED memo

\* Typing another integer into the field.
TypeValue ==
    /\ pc = "done"
    /\ \E v \in InputValues \ {widget} :
          widget' = v
    /\ interacted' = TRUE
    /\ StartRun
    /\ UNCHANGED memo

\* Re-running the page without changing the field ("Rerun").
Rerun ==
    /\ pc = "done"
    /\ StartRun
    /\ UNCHANGED <<widget, interacted, memo>>

Script ==
    \/ Title
    \/ Intro
    \/ NumberInput
    \/ CalcSquare
    \/ CalcCube
    \/ CalcFifth
    \/ WriteSquare
    \/ WriteCube
    \/ WriteFifth

Next ==
    \/ Title
    \/ Intro
    \/ NumberInput
    \/ CalcSquare
    \/ CalcCube
    \/ CalcFifth
    \/ WriteSquare
    \/ WriteCube
    \/ WriteFifth
    \/ Increment
    \/ Decrement
    \/ TypeValue
    \/ Rerun

Spec == Init /\ [][Next]_vars

\* A started script run is executed to its end.
FairSpec == Spec /\ WF_vars(Script)

\* The field driven by its stepper buttons only.
NextStepper ==
    \/ Title
    \/ Intro
    \/ NumberInput
    \/ CalcSquare
    \/ CalcCube
    \/ CalcFifth
    \/ WriteSquare
    \/ WriteCube
    \/ WriteFifth
    \/ Increment
    \/ Decrement
    \/ Rerun

StepperSpec == Init /\ [][NextStepper]_vars

---------------------------------------------------------------------------
(* Vocabulary of the properties *)

\* The three powers are bound: the script is past line 13.
Computed == pc \in {"l16", "l17", "l18", "done"}

\* The value of a Python int as an integer of the model checker (only for
\* values that fit).
RECURSIVE MagnitudeOf(_)
MagnitudeOf(a) ==
    IF a = <<>> THEN 0 ELSE a[1] + Base * MagnitudeOf(Tail(a))

ValueOf(x) == x.sign * MagnitudeOf(x.digits)

\* Inputs whose fifth power fits the model checker's integers.
SmallInput == Abs(widget) <= 73

\* The powers of the widget's value by repeated multiplication.
InputSquare == IntMul(FromInt(widget), FromInt(widget))

InputCube == IntMul(InputSquare, FromInt(widget))

InputFifth == IntMul(IntMul(InputCube, FromInt(widget)), FromInt(widget))

\* Pairwise coprime moduli whose product exceeds 2^119.
Moduli == {32749, 32719, 32717, 32713, 32707, 32693, 32687, 32653}

\* i^e modulo m, with every intermediate value below m^2.
RECURSIVE PowMod(_, _, _)
PowMod(i, e, m) ==
    IF e = 0 THEN 1 % m ELSE ((i % m) * PowMod(i, e - 1, m)) % m

\* The value of a Python int modulo m.
Residue(x, m) == (x.sign * DivRem1(x.digits, m).r) % m

\* Number of bits of a magnitude.
RECURSIVE BitsOfDigit(_)
BitsOfDigit(d) == IF d = 0 THEN 0 ELSE 1 + BitsOfDigit(d \div 2)

BitLength(a) ==
    IF a = <<>> THEN 0 ELSE 15 * (Len(a) - 1) + BitsOfDigit(a[Len(a)])

---------------------------------------------------------------------------
(* C1 *)

---------------------------------------------------------------------------
(* C2 *)

\* C2: every finished render shows exactly three result lines, in this
\* order and with exactly this text: "The square of {n} is: {n^2}",
\* "The cube of {n} is: {n^3}", "The fifth_power of {n} is: {n^5}".
C2_ResultLinesText ==
    pc = "done" =>
        /\ Len(ResultLines) = 3
        /\ Text(ResultLines[1])
              = "The square of " \o IntStr(FromInt(widget)) \o " is: "
                   \o IntStr(InputSquare)
        /\ Text(ResultLines[2])
              = "The cube of " \o IntStr(FromInt(widget)) \o " is: "
                   \o IntStr(InputCube)
        /\ Text(ResultLines[3])
              = "The fifth_power of " \o IntStr(FromInt(widget)) \o " is: "
                   \o IntStr(InputFifth)

---------------------------------------------------------------------------
(* C3 *)

\* The values a finished render shows are the powers of the current input.
ShowsCurrentInput ==
    pc = "done" =>
        /\ Len(ResultLines) = 3
        /\ ResultLines[1].parts[4] = IntStr(InputSquare)
        /\ ResultLines[2].parts[4] = IntStr(InputCube)
        /\ ResultLines[3].parts[4] = IntStr(InputFifth)
        /\ SmallInput =>
              /\ ResultLines[1].parts[4] = ToString(widget * widget)
              /\ ResultLines[2].parts[4] = ToString(widget * widget * widget)
              /\ ResultLines[3].parts[4]
                    = ToString(widget * widget * widget * widget * widget)

\* C3: every change of the input starts one full run of the script from
\* its first line with an empty page, so whenever a render has completed
\* the three displayed values are the square, cube and fifth power of the
\* current input, never of an earlier one.
C3_DisplayFollowsInput ==
    /\ []ShowsCurrentInput
    /\ [][widget' # widget =>
             /\ pc = "done"
             /\ pc' = "l4"
             /\ page' = <<>>
             /\ square' = Unbound /\ cube' = Unbound
             /\ fifth_power' = Unbound]_vars

C3_Witness ==
    /\ pc = "done"
    /\ interacted
    /\ widget = 3
    /\ memo.n = FromInt(2)

---------------------------------------------------------------------------
(* C4 *)

\* C4: on the first render, before any user interaction, the input is the
\* default 1 and the computed triple is (1, 1, 1).
C4_FirstRender ==
    ~interacted =>
        /\ widget = 1
        /\ Computed =>
              /\ n = [sign |-> 1, digits |-> <<1>>]
              /\ square = [sign |-> 1, digits |-> <<1>>]
              /\ cube = [sign |-> 1, digits |-> <<1>>]
              /\ fifth_power = [sign |-> 1, digits |-> <<1>>]

C4_Witness == ~interacted /\ pc = "done" /\ memo = NoMemo

---------------------------------------------------------------------------
(* C5 *)

---------------------------------------------------------------------------
(* C6 *)

\* C6: the calculation has no error outcome: for every input, zero and
\* negative ones included, a script run always has a next statement to
\* execute until it is done, every started run completes, and a completed
\* run shows all three result lines.
C6_RenderCompletes ==
    /\ [](pc # "done" => ENABLED Script)
    /\ [](pc = "done" => Len(ResultLines) = 3)
    /\ (pc # "done") ~> (pc = "done" /\ Len(ResultLines) = 3)

C6_Witness == pc = "done" /\ widget = 0 /\ Len(ResultLines) = 3

---------------------------------------------------------------------------
(* C7 *)

\* C7: the powers are exact, as with arbitrary-precision integers: the
\* values agree with n^2, n^3, n^5 modulo each of a set of coprime moduli
\* whose product exceeds twice their magnitude, the fifth power of an n
\* with |n| >= 2^13 has more than 64 bits, and 8192^5 is displayed as
\* 36893488147419103232 = 2^65; nothing is reduced modulo 2^64.
C7_ExactPowers ==
    Computed =>
        /\ Len(square.digits) <= 7
        /\ Len(cube.digits) <= 7
        /\ Len(fifth_power.digits) <= 7
        /\ \A m \in Moduli :
              /\ Residue(square, m) = PowMod(widget, 2, m)
              /\ Residue(cube, m) = PowMod(widget, 3, m)
              /\ Residue(fifth_power, m) = PowMod(widget, 5, m)
        /\ Abs(widget) >= 2^13 => BitLength(fifth_power.digits) > 64
        /\ widget = 8192 =>
              IntStr(fifth_power) = "36893488147419103232"
        /\ widget = -8193 =>
              /\ IntStr(square) = "67125249"
              /\ IntStr(cube) = "-549957165057"
              /\ IntStr(fifth_power) = "-36916011643785224193"
        /\ widget = 65536 =>
              IntStr(fifth_power) = "1208925819614629174706176"

C7_Witness == pc = "done" /\ widget = -8193

---------------------------------------------------------------------------
(* C8 *)

\* C8: starting from the default 1, under increments and decrements of the
\* field n stays an integer and every step changes it by exactly 1 (zero
\* and the negative integers are reached this way: see the witness).
C8_UnitSteps ==
    /\ [](widget \in Int)
    /\ [][widget' # widget =>
             (widget' = widget + 1 \/ widget' = widget - 1)]_vars

C8_Witness == pc = "done" /\ widget = -MaxN /\ n = FromInt(-MaxN)

---------------------------------------------------------------------------
(* C9 *)

\* C9: computing and displaying never modifies the input: no statement of
\* the script changes the field's value or rebinds n, and the n echoed in
\* each result line is the value read from the field at line 8.
C9_InputUntouched ==
    /\ [][pc # "done" => widget' = widget]_vars
    /\ [][(pc \notin {"l8", "done"}) => n' = n]_vars
    /\ [](pc \notin {"l4", "l5", "l8"} => n = FromInt(widget))
    /\ [](\A i \in 1 .. Len(ResultLines) :
             /\ ResultLines[i].parts[2] = IntStr(FromInt(widget))
             /\ SmallInput => ResultLines[i].parts[2] = ToString(widget))

C9_Witness == pc = "done" /\ widget = -3 /\ Len(ResultLines) = 3

---------------------------------------------------------------------------
(* C10 *)

\* C10: square >= 0, cube and fifth_power have the sign of n, all three
\* are 0 exactly when n = 0, and fifth_power = square * cube.
C10_SignRelations ==
    Computed =>
        /\ square.sign >= 0
        /\ cube.sign = Sgn(widget)
        /\ fifth_power.sign = Sgn(widget)
        /\ (square = Zero) <=> (widget = 0)
        /\ (cube = Zero) <=> (widget = 0)
        /\ (fifth_power = Zero) <=> (widget = 0)
        /\ fifth_power = IntMul(square, cube)
        /\ \A m \in Moduli :
              Residue(fifth_power, m)
                 = (Residue(square, m) * Residue(cube, m)) % m

C10_Witness == Computed /\ widget = -1291

====
